---------------------------- MODULE Spec2Model ----------------------------
(***************************************************************************)
(* A model of the release-notes automation of gh-release-automation:       *)
(*   src/generate_release_notes.py  (the pipeline that is actually run)    *)
(*   src/gh_releases.py             (the near-duplicate with its own       *)
(*                                   extract_jira_ticket_no)               *)
(*                                                                         *)
(* Text is modelled by TLA+ strings; a pull request body is one string     *)
(* with embedded line breaks, exactly as the API hands it over, and the    *)
(* regular expressions of the source are computed character by character.  *)
(* None / JSON null is NULL where text is expected and NONE where a record *)
(* is.  A call that can raise yields [ok |-> FALSE, exc |-> <exception>]   *)
(* or [ok |-> TRUE, val |-> <value>].  The remote API is the environment:  *)
(* each answer is chosen when the request is made.                         *)
(***************************************************************************)
EXTENDS Integers, Sequences, FiniteSets, TLC

VARIABLES
    pc,            \* control position of the run / of the call under study
    exc,           \* the exception that ended the call, "none" otherwise
    exit_code,     \* process exit status, -1 while the process runs
    py311,         \* the interpreter is CPython >= 3.11 (fromisoformat reads "Z")
    new_release,   \* __main__: new_release   (NONE or a release record)
    prev_release,  \* __main__: prev_release  (NONE or a release record)
    since,         \* get_merged_prs: since   (NONE or a datetime)
    page,          \* get_merged_prs: page
    prs,           \* get_merged_prs: prs     (the decoded body of the last response)
    idx,           \* get_merged_prs: position of `for pr in prs`
    merged_prs,    \* get_merged_prs: merged_prs
    release_body,  \* generate_release_body: release_body
    requests,      \* history: page numbers requested from the pulls endpoint
    received,      \* history: the decoded answers of the pulls endpoint
    seen,          \* history: the pull requests `for pr in prs` has visited
    calls,         \* history: every remote call made, with its HTTP outcome
    patches,       \* history: the payloads PATCHed to the release
    body,          \* extractor study: the body handed to the extractors
    changelog,     \* extractor study: outcome of extract_changelog(body)
    ticket,        \* extractor study: outcome of extract_jira_ticket_no(body), generate_release_notes.py
    ticket_gh      \* extractor study: outcome of extract_jira_ticket_no(body), gh_releases.py

vars == <<pc, exc, exit_code, py311, new_release, prev_release, since, page, prs,
          idx, merged_prs, release_body, requests, received, seen, calls, patches,
          body, changelog, ticket, ticket_gh>>

\* None / JSON null where a string is expected, and where a record is expected.
NULL == "<None>"
NONE == [none |-> TRUE]
\* An extractor that has not been called yet.
PENDING == [pending |-> TRUE]

Ok(v) == [ok |-> TRUE, val |-> v]
Raise(e) == [ok |-> FALSE, exc |-> e]

-----------------------------------------------------------------------------
(* Strings *)

Ch(s, i) == SubSeq(s, i, i)

\* re.match(literal, s): the literal matches at the start of s; what follows is free.
StartsWith(s, p) == Len(s) >= Len(p) /\ SubSeq(s, 1, Len(p)) = p

\* The line boundaries of str.splitlines() that occur in the modelled text.
LineBreaks == {"\n", "\r"}

\* Index of the first line break of s at or after i, 0 when there is none.
RECURSIVE FirstBreak(_, _)
FirstBreak(s, i) ==
    IF i > Len(s) THEN 0
    ELSE IF Ch(s, i) \in LineBreaks THEN i
    ELSE FirstBreak(s, i + 1)

\* Width of the line break of s at b: "\r\n" is one break.
BreakWidth(s, b) ==
    IF Ch(s, b) = "\r" /\ b < Len(s) /\ Ch(s, b + 1) = "\n" THEN 2 ELSE 1

\* The lines of s from position i on.  (The one-element set binds the next
\* position to its value before the recursion goes on.)
RECURSIVE SplitFrom(_, _)
SplitFrom(s, i) ==
    IF i > Len(s) THEN <<>>
    ELSE CHOOSE ls \in
           {IF b = 0 THEN <<SubSeq(s, i, Len(s))>>
            ELSE <<SubSeq(s, i, b - 1)>> \o SplitFrom(s, b + BreakWidth(s, b))
              : b \in {FirstBreak(s, i)}} : TRUE

\* str.splitlines(): no empty last line after a final break.
SplitLines(s) == SplitFrom(s, 1)

\* The characters of the class \w that occur in the modelled text.
WordChars ==
    {"a","b","c","d","e","f","g","h","i","j","k","l","m","n","o","p","q","r","s",
     "t","u","v","w","x","y","z","A","B","C","D","E","F","G","H","I","J","K","L",
     "M","N","O","P","Q","R","S","T","U","V","W","X","Y","Z","0","1","2","3","4",
     "5","6","7","8","9","_"}

\* The characters str.strip() removes.
Whitespace == {" ", "\t", "\n", "\r", "\f"}

RECURSIVE LStrip(_)
LStrip(s) ==
    IF s # "" /\ Ch(s, 1) \in Whitespace THEN LStrip(SubSeq(s, 2, Len(s))) ELSE s

RECURSIVE RStrip(_)
RStrip(s) ==
    IF s # "" /\ Ch(s, Len(s)) \in Whitespace THEN RStrip(SubSeq(s, 1, Len(s) - 1)) ELSE s

Strip(s) == RStrip(LStrip(s))

\* Last index of the run of word characters of s that starts at i (i - 1 if none).
RECURSIVE WordEnd(_, _)
WordEnd(s, i) ==
    IF i <= Len(s) /\ Ch(s, i) \in WordChars THEN WordEnd(s, i + 1) ELSE i - 1

-----------------------------------------------------------------------------
(* extract_changelog *)

\* section_regex = re.compile(r"### (\w+)"), used with .match(line)
SectionMatch(line) == StartsWith(line, "### ") /\ WordEnd(line, 5) >= 5
SectionGroup(line) == SubSeq(line, 5, WordEnd(line, 5))

\* bullet_point_regex = re.compile(r"- (.+)"), used with .match(line)
BulletMatch(line) == StartsWith(line, "- ") /\ Len(line) >= 3
BulletGroup(line) == SubSeq(line, 3, Len(line))

\* The dict literal with Fixed written first.
ReleaseNotesFixedFirst ==
    << [k |-> "Fixed",      v |-> <<>>],
       [k |-> "Added",      v |-> <<>>],
       [k |-> "Changed",    v |-> <<>>],
       [k |-> "Deprecated", v |-> <<>>],
       [k |-> "Removed",    v |-> <<>>],
       [k |-> "Security",   v |-> <<>>] >>

\* The dict literal release_notes: an insertion-ordered mapping, kept as the
\* sequence of its (key, value) items.
ReleaseNotesInit ==
    << [k |-> "Added",      v |-> <<>>],
       [k |-> "Changed",    v |-> <<>>],
       [k |-> "Deprecated", v |-> <<>>],
       [k |-> "Removed",    v |-> <<>>],
       [k |-> "Fixed",      v |-> <<>>],
       [k |-> "Security",   v |-> <<>>] >>

\* key in dict
HasKey(d, key) == \E i \in 1..Len(d) : d[i].k = key
\* dict[key]
Get(d, key) == d[CHOOSE i \in 1..Len(d) : d[i].k = key].v
\* dict[key].append(x)
AppendTo(d, key, x) ==
    [i \in 1..Len(d) |-> IF d[i].k = key THEN [k |-> key, v |-> Append(d[i].v, x)] ELSE d[i]]

\* One iteration of `for line in lines`, on the pair (current_section, release_notes).
ChangelogStep(st, line) ==
    IF SectionMatch(line)
    THEN [cur   |-> IF HasKey(st.notes, SectionGroup(line)) THEN SectionGroup(line) ELSE NULL,
          notes |-> st.notes]
    ELSE IF BulletMatch(line) /\ st.cur # NULL
    THEN [cur |-> st.cur, notes |-> AppendTo(st.notes, st.cur, Strip(BulletGroup(line)))]
    ELSE st

\* `for line in lines`.  (The one-element set binds the new pair to its value
\* before the next iteration.)
RECURSIVE ChangelogLoop(_, _, _)
ChangelogLoop(st, lines, i) ==
    IF i > Len(lines) THEN st
    ELSE CHOOSE out \in
           {ChangelogLoop(next, lines, i + 1) : next \in {ChangelogStep(st, lines[i])}} : TRUE

\* extract_changelog(pr_body); None has no splitlines.
ExtractChangelog(pr_body) ==
    IF pr_body = NULL THEN Raise("AttributeError")
    ELSE CHOOSE out \in
           {Ok(ChangelogLoop([cur |-> NULL, notes |-> ReleaseNotesInit], lines, 1).notes)
              : lines \in {SplitLines(pr_body)}} : TRUE

-----------------------------------------------------------------------------
(* extract_jira_ticket_no *)

\* jira_ticket_section = re.compile(r"### Ticket"), used with .match(line)
TicketMatch(line) == StartsWith(line, "### Ticket")

\* The test of the loop in generate_release_notes.py: `if section_match:`
TicketTest(line) == TicketMatch(line)

\* The test of the loop in gh_releases.py: `if jira_ticket_section:`, the
\* compiled pattern itself, which is always true.
TicketTestGh(line) == TRUE

\* `return lines[i + 1]` of the first line passing the test; "" after the loop.
RECURSIVE TicketLoop(_, _, _)
TicketLoop(lines, i, gh) ==
    IF i > Len(lines) THEN Ok("")
    ELSE IF (IF gh THEN TicketTestGh(lines[i]) ELSE TicketTest(lines[i]))
    THEN IF i + 1 <= Len(lines) THEN Ok(lines[i + 1]) ELSE Raise("IndexError")
    ELSE TicketLoop(lines, i + 1, gh)

\* extract_jira_ticket_no(pr_body) of generate_release_notes.py
ExtractJiraTicketNo(pr_body) ==
    IF pr_body = NULL THEN Raise("AttributeError")
    ELSE CHOOSE out \in {TicketLoop(lines, 1, FALSE) : lines \in {SplitLines(pr_body)}} : TRUE

\* extract_jira_ticket_no(pr_body) of gh_releases.py
ExtractJiraTicketNoGh(pr_body) ==
    IF pr_body = NULL THEN Raise("AttributeError")
    ELSE CHOOSE out \in {TicketLoop(lines, 1, TRUE) : lines \in {SplitLines(pr_body)}} : TRUE

-----------------------------------------------------------------------------
(* Timestamps.  An instant is a small integer.  The API's timestamp text is  *)
(* [t |-> instant, z |-> it ends in "Z"]; a datetime is                      *)
(* [t |-> instant, aware |-> it carries a timezone].                         *)

\* datetime.strptime(text, '%Y-%m-%dT%H:%M:%SZ'): the "Z" is a literal of the
\* format, the result is naive.
Strptime(text) == [t |-> text.t, aware |-> FALSE]

\* datetime.fromisoformat(text): None is a TypeError; a trailing "Z" is read
\* (as UTC, an aware datetime) from CPython 3.11 on and is a ValueError before.
FromIsoformat(text, is311) ==
    IF text = NONE THEN Raise("TypeError")
    ELSE IF text.z
    THEN IF is311 THEN Ok([t |-> text.t, aware |-> TRUE]) ELSE Raise("ValueError")
    ELSE Ok([t |-> text.t, aware |-> FALSE])

\* A comparison that lets the cutoff instant itself through.
LaterOrEqual(a, b) ==
    IF b = NONE THEN Raise("TypeError")
    ELSE IF a.aware # b.aware THEN Raise("TypeError")
    ELSE Ok(a.t >= b.t)

\* a > b on datetimes: None, or naive against aware, is a TypeError.
Later(a, b) ==
    IF b = NONE THEN Raise("TypeError")
    ELSE IF a.aware # b.aware THEN Raise("TypeError")
    ELSE Ok(a.t > b.t)

-----------------------------------------------------------------------------
(* get_merged_prs *)

\* `not prs` on the decoded JSON: an empty list and an empty object are falsy.
Falsy(json) ==
    \/ json.kind = "list" /\ json.items = <<>>
    \/ json.kind = "empty_object"

\* The body of `for pr in prs` for one pull request, on merged_prs.
PrStep(pr, cutoff, merged) ==
    IF pr.merged_at = NONE THEN Ok(merged)
    ELSE LET merged_at == Strptime(pr.merged_at)
             cmp == Later(merged_at, cutoff)
         IN  IF ~cmp.ok THEN cmp
             ELSE IF ~cmp.val THEN Ok(merged)
             ELSE LET notes == ExtractChangelog(pr.body)
                      tick  == ExtractJiraTicketNo(pr.body)
                  IN  IF ~notes.ok THEN notes
                      ELSE IF ~tick.ok THEN tick
                      ELSE Ok(Append(merged,
                                     [title         |-> pr.title,
                                      release_notes |-> notes.val,
                                      ticket_no     |-> tick.val,
                                      merged_at     |-> merged_at]))

-----------------------------------------------------------------------------
(* generate_release_body *)

RECURSIVE BulletText(_, _)
BulletText(bullets, i) ==
    IF i > Len(bullets) THEN ""
    ELSE "- " \o bullets[i] \o "\n" \o BulletText(bullets, i + 1)

\* `for section, bullet_points in pr['release_notes'].items()`
RECURSIVE SectionText(_, _)
SectionText(notes, i) ==
    IF i > Len(notes) THEN ""
    ELSE (IF notes[i].v # <<>>
          THEN "### " \o notes[i].k \o "\n" \o BulletText(notes[i].v, 1)
          ELSE "")
         \o SectionText(notes, i + 1)

\* `for pr in merged_prs`
RECURSIVE GenerateBody(_, _)
GenerateBody(merged, i) ==
    IF i > Len(merged) THEN ""
    ELSE "## " \o merged[i].ticket_no \o " - " \o merged[i].title \o "\n"
         \o SectionText(merged[i].release_notes, 1)
         \o GenerateBody(merged, i + 1)

-----------------------------------------------------------------------------
(* update_release *)

\* A payload whose body is tested with `is not None`, like the flags.
UpdatePayloadBodyNotNone(new_name, new_body, draft, prerelease) ==
       (IF new_name # NULL /\ new_name # "" THEN <<[k |-> "name", v |-> new_name]>> ELSE <<>>)
    \o (IF new_body # NULL THEN <<[k |-> "body", v |-> new_body]>> ELSE <<>>)
    \o (IF draft # NULL THEN <<[k |-> "draft", v |-> draft]>> ELSE <<>>)
    \o (IF prerelease # NULL THEN <<[k |-> "prerelease", v |-> prerelease]>> ELSE <<>>)

\* The payload dict, as the sequence of its items.  new_name and new_body are
\* tested for truth (None and "" are both left out), draft and prerelease for
\* `is not None`.
UpdatePayload(new_name, new_body, draft, prerelease) ==
       (IF new_name # NULL /\ new_name # "" THEN <<[k |-> "name", v |-> new_name]>> ELSE <<>>)
    \o (IF new_body # NULL /\ new_body # "" THEN <<[k |-> "body", v |-> new_body]>> ELSE <<>>)
    \o (IF draft # NULL THEN <<[k |-> "draft", v |-> draft]>> ELSE <<>>)
    \o (IF prerelease # NULL THEN <<[k |-> "prerelease", v |-> prerelease]>> ELSE <<>>)

-----------------------------------------------------------------------------
(* Bounds and inputs *)

\* Lines per pull request body in the extractor study.
MaxLines == 3
\* Pull requests the pulls endpoint serves in one run, over all its pages.
MaxPrs == 3
\* Instants run from 1 to MaxTime.
MaxTime == 3

SeqsUpTo(S, n) == UNION {[1..k -> S] : k \in 0..n}

\* The lines the studied bodies are made of.
LinePool ==
    {"### Added", "### Fixed", "### Bogus", "### Ticket", "### Ticketing",
     "### Added now", "### (misc)", "- A", "-  B ", "JIRA-123", " T-1 ", ""}

RECURSIVE JoinLines(_, _)
JoinLines(lines, i) ==
    IF i > Len(lines) THEN ""
    ELSE lines[i] \o (IF i < Len(lines) THEN "\n" ELSE "") \o JoinLines(lines, i + 1)

\* The bodies of the extractor study: None, every text of at most MaxLines
\* lines of the pool, and two texts with other line endings.
Bodies ==
    {NULL} \cup {JoinLines(ls, 1) : ls \in SeqsUpTo(LinePool, MaxLines)}
           \cup {"### Ticket\r\nJIRA-123\r\n### Added\r\n- A\r\n", "### Fixed\n- A\n"}

\* The pull requests the endpoint can serve.
PrPool ==
    { [title |-> "Fix bug",     merged_at |-> [t |-> 2, z |-> TRUE],
       body  |-> "### Ticket\nABC-1\n### Fixed\n- bug one"],
      [title |-> "Add feature", merged_at |-> [t |-> 3, z |-> TRUE],
       body  |-> "### Fixed\n- f\n### Added\n- feature one"],
      [title |-> "Old fix",     merged_at |-> [t |-> 1, z |-> TRUE],
       body  |-> "no headings here"],
      [title |-> "Unmerged",    merged_at |-> NONE,
       body  |-> NULL],
      [title |-> "No text",     merged_at |-> [t |-> 3, z |-> TRUE],
       body  |-> NULL] }

Instants == 1..MaxTime

\* The created_at texts a release can carry ("...Z" is what GitHub sends).
CreatedAts == {[t |-> t, z |-> z] : t \in Instants, z \in BOOLEAN}

\* The `since` arguments of a direct call of get_merged_prs.
SinceArgs == {NONE} \cup {[t |-> t, aware |-> a] : t \in Instants, a \in BOOLEAN}

RECURSIVE Served(_, _)
Served(pages, i) ==
    IF i > Len(pages) THEN 0
    ELSE (IF pages[i].kind = "list" THEN Len(pages[i].items) ELSE 0) + Served(pages, i + 1)

\* What the pulls endpoint can answer: with 200, a page (a JSON list) of pull
\* requests, empty once MaxPrs have been served; with a failure status, a body
\* that is not JSON, an error object, or an empty JSON value.
PullsResponses(budget) ==
    {[status |-> 200, json |-> [kind |-> "list", items |-> p]] : p \in SeqsUpTo(PrPool, budget)}
    \cup {[status |-> 502, json |-> [kind |-> "malformed"]],
          [status |-> 403, json |-> [kind |-> "object"]],
          [status |-> 500, json |-> [kind |-> "empty_object"]]}

-----------------------------------------------------------------------------
(* The extractor study: each extractor applied to one body *)

InitExtract ==
    /\ body \in Bodies
    /\ changelog = PENDING /\ ticket = PENDING /\ ticket_gh = PENDING
    /\ pc = "extract" /\ exc = "none" /\ exit_code = -1 /\ py311 = TRUE
    /\ new_release = NONE /\ prev_release = NONE /\ since = NONE
    /\ page = 1 /\ prs = [kind |-> "list", items |-> <<>>] /\ idx = 1
    /\ merged_prs = <<>> /\ release_body = ""
    /\ requests = <<>> /\ received = <<>> /\ seen = <<>>
    /\ calls = <<>> /\ patches = <<>>

runVars == <<pc, exc, exit_code, py311, new_release, prev_release, since, page, prs,
             idx, merged_prs, release_body, requests, received, seen, calls, patches>>

CallExtractChangelog ==
    /\ changelog = PENDING
    /\ changelog' = ExtractChangelog(body)
    /\ UNCHANGED <<runVars, body, ticket, ticket_gh>>

CallExtractJiraTicketNo ==
    /\ ticket = PENDING
    /\ ticket' = ExtractJiraTicketNo(body)
    /\ UNCHANGED <<runVars, body, changelog, ticket_gh>>

CallExtractJiraTicketNoGh ==
    /\ ticket_gh = PENDING
    /\ ticket_gh' = ExtractJiraTicketNoGh(body)
    /\ UNCHANGED <<runVars, body, changelog, ticket>>

NextExtract ==
    \/ CallExtractChangelog
    \/ CallExtractJiraTicketNo
    \/ CallExtractJiraTicketNoGh

SpecExtract == InitExtract /\ [][NextExtract]_vars

-----------------------------------------------------------------------------
(* get_merged_prs, step by step: one action per request, one per pull request *)

extractVars == <<body, changelog, ticket, ticket_gh>>

\* requests.get(page), response.json(), `if not prs: break`.  The status code
\* is never read.
RequestPage ==
    /\ pc = "request"
    /\ \E resp \in PullsResponses(MaxPrs - Served(received, 1)) :
         /\ requests' = Append(requests, page)
         /\ calls' = Append(calls, [op |-> "pulls", status |-> resp.status])
         /\ IF resp.json.kind = "malformed"
            THEN /\ pc' = "raised"
                 /\ exc' = "JSONDecodeError"
                 /\ UNCHANGED <<prs, received, idx>>
            ELSE /\ prs' = resp.json
                 /\ received' = Append(received, resp.json)
                 /\ idx' = 1
                 /\ pc' = IF Falsy(resp.json) THEN "returned" ELSE "loop"
                 /\ UNCHANGED exc
    /\ UNCHANGED <<exit_code, py311, new_release, prev_release, since, page,
                   merged_prs, release_body, seen, patches, extractVars>>

\* A loop that leaves every page after its first pull request.
LastOfPageAlways(json, i) == TRUE

\* `for pr in prs` is exhausted after position i.
LastOfPage(json, i) == IF json.kind = "list" THEN i >= Len(json.items) ELSE TRUE

\* One iteration of `for pr in prs`, and `page += 1` after the last one.
\* Iterating an error object yields its keys, and a str has no ['merged_at'].
ProcessPr ==
    /\ pc = "loop"
    /\ LET isList == prs.kind = "list"
           r == IF isList THEN PrStep(prs.items[idx], since, merged_prs)
                ELSE Raise("TypeError")
           last == LastOfPage(prs, idx)
       IN  /\ seen' = IF isList THEN Append(seen, prs.items[idx]) ELSE seen
           /\ merged_prs' = IF r.ok THEN r.val ELSE merged_prs
           /\ exc' = IF r.ok THEN exc ELSE r.exc
           /\ idx' = IF r.ok /\ ~last THEN idx + 1 ELSE idx
           /\ page' = IF r.ok /\ last THEN page + 1 ELSE page
           /\ pc' = IF ~r.ok THEN "raised" ELSE IF last THEN "request" ELSE "loop"
    /\ UNCHANGED <<exit_code, py311, new_release, prev_release, since, prs,
                   release_body, requests, received, calls, patches, extractVars>>

\* A direct call get_merged_prs(since, token).
InitFetch ==
    /\ pc = "request" /\ exc = "none" /\ exit_code = -1 /\ py311 = TRUE
    /\ new_release = NONE /\ prev_release = NONE
    /\ since \in SinceArgs
    /\ page = 1 /\ prs = [kind |-> "list", items |-> <<>>] /\ idx = 1
    /\ merged_prs = <<>> /\ release_body = ""
    /\ requests = <<>> /\ received = <<>> /\ seen = <<>>
    /\ calls = <<>> /\ patches = <<>>
    /\ body = NULL /\ changelog = PENDING /\ ticket = PENDING /\ ticket_gh = PENDING

NextFetch ==
    \/ RequestPage
    \/ ProcessPr

SpecFetch == InitFetch /\ [][NextFetch]_vars

\* The loop has no concurrency: a step that can be taken is taken.
FairSpecFetch == SpecFetch /\ WF_vars(NextFetch)

-----------------------------------------------------------------------------
(* The run of generate_release_notes.py *)

\* get_release_by_tag: the decoded release on 200, None otherwise.
GetReleaseByTag(status, json) == IF status = 200 THEN json ELSE NONE

\* obj[key] on a release or on None.
Subscript(obj, key) == IF obj = NONE THEN Raise("TypeError") ELSE Ok(obj[key])

\* Module import: HEADERS calls get_github_token(), which returns a token or
\* calls exit(1).
Import ==
    /\ pc = "import"
    /\ \E token_found \in BOOLEAN :
         IF token_found
         THEN pc' = "lookup_new" /\ UNCHANGED exit_code
         ELSE pc' = "exit" /\ exit_code' = 1
    /\ UNCHANGED <<exc, py311, new_release, prev_release, since, page, prs, idx,
                   merged_prs, release_body, requests, received, seen, calls,
                   patches, extractVars>>

\* new_release = get_release_by_tag(argv[1] or DEFAULT_TAG)
LookupNew ==
    /\ pc = "lookup_new"
    /\ \E status \in {200, 404} :
         /\ new_release' = GetReleaseByTag(status, [id |-> 1, published_at |-> NULL,
                                                    created_at |-> NONE])
         /\ calls' = Append(calls, [op |-> "release", status |-> status])
    /\ pc' = "lookup_prev"
    /\ UNCHANGED <<exc, exit_code, py311, prev_release, since, page, prs, idx,
                   merged_prs, release_body, requests, received, seen, patches,
                   extractVars>>

\* prev_release = get_release_by_tag(argv[2] or None)
LookupPrev ==
    /\ pc = "lookup_prev"
    /\ \E status \in {200, 404}, created \in CreatedAts :
         /\ prev_release' = GetReleaseByTag(status, [id |-> 0, published_at |-> NULL,
                                                     created_at |-> created])
         /\ calls' = Append(calls, [op |-> "release", status |-> status])
    /\ pc' = "main"
    /\ UNCHANGED <<exc, exit_code, py311, new_release, since, page, prs, idx,
                   merged_prs, release_body, requests, received, seen, patches,
                   extractVars>>

\* `if new_release:` up to the first request of get_merged_prs:
\* print(type(prev_release["published_at"])), the argument
\* prev_release["created_at"] if prev_release else None, and
\* datetime.fromisoformat(since) in generate_release_body.
Main ==
    /\ pc = "main"
    /\ LET published == Subscript(prev_release, "published_at")
           arg == IF prev_release # NONE THEN prev_release.created_at ELSE NONE
           parsed == FromIsoformat(arg, py311)
       IN  IF new_release = NONE
           THEN /\ pc' = "exit" /\ exit_code' = 0
                /\ UNCHANGED <<exc, since>>
           ELSE IF ~published.ok
           THEN /\ pc' = "raised" /\ exc' = published.exc
                /\ UNCHANGED <<exit_code, since>>
           ELSE IF ~parsed.ok
           THEN /\ pc' = "raised" /\ exc' = parsed.exc
                /\ UNCHANGED <<exit_code, since>>
           ELSE /\ pc' = "request" /\ since' = parsed.val
                /\ UNCHANGED <<exc, exit_code>>
    /\ UNCHANGED <<py311, new_release, prev_release, page, prs, idx, merged_prs,
                   release_body, requests, received, seen, calls, patches,
                   extractVars>>

\* After get_merged_prs returned: the rest of generate_release_body, then
\* update_release(release_id, None, release_body, draft=False, prerelease=False).
\* Either outcome of the PATCH is printed and the script ends.
ComposeAndUpdate ==
    /\ pc = "returned"
    /\ release_body' = GenerateBody(merged_prs, 1)
    /\ \E status \in {200, 422} :
         /\ patches' = Append(patches, UpdatePayload(NULL, release_body', "false", "false"))
         /\ calls' = Append(calls, [op |-> "patch", status |-> status])
    /\ pc' = "exit"
    /\ exit_code' = 0
    /\ UNCHANGED <<exc, py311, new_release, prev_release, since, page, prs, idx,
                   merged_prs, requests, received, seen, extractVars>>

\* Nothing catches an exception: the interpreter prints it and exits with 1.
Uncaught ==
    /\ pc = "raised"
    /\ pc' = "exit"
    /\ exit_code' = 1
    /\ UNCHANGED <<exc, py311, new_release, prev_release, since, page, prs, idx,
                   merged_prs, release_body, requests, received, seen, calls,
                   patches, extractVars>>

Init ==
    /\ pc = "import" /\ exc = "none" /\ exit_code = -1
    /\ py311 \in BOOLEAN
    /\ new_release = NONE /\ prev_release = NONE /\ since = NONE
    /\ page = 1 /\ prs = [kind |-> "list", items |-> <<>>] /\ idx = 1
    /\ merged_prs = <<>> /\ release_body = ""
    /\ requests = <<>> /\ received = <<>> /\ seen = <<>>
    /\ calls = <<>> /\ patches = <<>>
    /\ body = NULL /\ changelog = PENDING /\ ticket = PENDING /\ ticket_gh = PENDING

Next ==
    \/ Import
    \/ LookupNew
    \/ LookupPrev
    \/ Main
    \/ RequestPage
    \/ ProcessPr
    \/ ComposeAndUpdate
    \/ Uncaught

Spec == Init /\ [][Next]_vars

-----------------------------------------------------------------------------
(* Vocabulary of the properties *)

\* The six categories, in the canonical order of the specification.
CanonicalOrder == <<"Added", "Changed", "Deprecated", "Removed", "Fixed", "Security">>
CategorySet == {CanonicalOrder[i] : i \in 1..Len(CanonicalOrder)}

\* The pull requests of all answers so far, first page first.
RECURSIVE AllItems(_, _)
AllItems(pages, i) ==
    IF i > Len(pages) THEN <<>>
    ELSE (IF pages[i].kind = "list" THEN pages[i].items ELSE <<>>) \o AllItems(pages, i + 1)

\* An answer that is an empty collection.
EmptyCollection(json) ==
    \/ json.kind = "list" /\ json.items = <<>>
    \/ json.kind = "empty_object"

\* (title, merge instant) of the pull requests merged strictly after instant c.
RECURSIVE MergedAfter(_, _, _)
MergedAfter(items, c, i) ==
    IF i > Len(items) THEN <<>>
    ELSE (IF items[i].merged_at # NONE /\ items[i].merged_at.t > c
          THEN << <<items[i].title, items[i].merged_at.t>> >>
          ELSE <<>>)
         \o MergedAfter(items, c, i + 1)

\* (title, merge instant) of the extracted changes.
Identities(changes) == [i \in 1..Len(changes) |-> <<changes[i].title, changes[i].merged_at.t>>]

Terminated == pc \in {"returned", "raised"}
AllCallsSucceeded == \A i \in 1..Len(calls) : calls[i].status = 200

-----------------------------------------------------------------------------
C2_Sequential ==
    /\ requests = [i \in 1..Len(requests) |-> i]
    /\ pc = "request" => (page = Len(requests) + 1 /\ seen = AllItems(received, 1))
    /\ \A i \in 1..Len(received) :
         EmptyCollection(received[i]) => (i = Len(received) /\ pc = "returned")
    /\ pc = "returned" =>
         /\ EmptyCollection(received[Len(received)])
         /\ seen = AllItems(received, 1)

C2_PaginationSequentialAndTerminates == []C2_Sequential /\ <>Terminated

\* The example of the specification: two non-empty pages, then the empty one,
\* three requests and no fourth.
C2_Witness ==
    /\ pc = "returned"
    /\ requests = <<1, 2, 3>>
    /\ received[1].items # <<>> /\ received[2].items # <<>>
    /\ received[3] = [kind |-> "list", items |-> <<>>]
    /\ Len(seen) = Len(received[1].items) + Len(received[2].items)

(* C3: a page request that gets a non-success status or a malformed body     *)
(* never lets the fetch return a (truncated) list as a success.              *)
C3_FailedPageNeverReturns ==
    pc = "returned" => \A i \in 1..Len(calls) : calls[i].status = 200

(* C4: with no previous release (the lookup returned None) and a new release *)
(* found, the run completes normally.                                        *)
C4_NoPreviousReleaseCompletes ==
    (pc = "exit" /\ new_release # NONE /\ prev_release = NONE) => exit_code = 0

-----------------------------------------------------------------------------
(* The extractors, as the specification words them *)

\* A heading line, and its label: the word after "### " (the rest of the line
\* when no word starts there).
IsHeading(line) == StartsWith(line, "### ")
Label(line) ==
    IF WordEnd(line, 5) >= 5 THEN SubSeq(line, 5, WordEnd(line, 5))
    ELSE SubSeq(line, 5, Len(line))

\* A bullet line `- text`, and its trimmed text.
IsBullet(line) == ~IsHeading(line) /\ StartsWith(line, "- ") /\ Len(line) >= 3

\* The category in force at line j: the label of the most recent heading
\* before it when that is one of the six, none otherwise.
CategoryAt(lines, j) ==
    LET H == {i \in 1..(j - 1) : IsHeading(lines[i])}
    IN  IF H = {} THEN NULL
        ELSE LET h == CHOOSE i \in H : \A k \in H : k <= i
             IN  IF Label(lines[h]) \in CategorySet THEN Label(lines[h]) ELSE NULL

\* The bullets of category c, in source order.
RECURSIVE BulletsOf(_, _, _)
BulletsOf(lines, c, j) ==
    IF j > Len(lines) THEN <<>>
    ELSE (IF IsBullet(lines[j]) /\ CategoryAt(lines, j) = c
          THEN <<Strip(SubSeq(lines[j], 3, Len(lines[j])))>> ELSE <<>>)
         \o BulletsOf(lines, c, j + 1)

Keys(d) == {d[i].k : i \in 1..Len(d)}

(* C5: extract_changelog returns exactly the six categories, and a bullet    *)
(* is in category C if and only if the most recent line beginning with       *)
(* "### " before it names C, one of the six; any other line beginning with   *)
(* "### " resets the category to none.                                       *)
C5_BulletsFollowMostRecentHeading ==
    (body # NULL /\ changelog # PENDING) =>
        /\ changelog.ok
        /\ Len(changelog.val) = 6
        /\ Keys(changelog.val) = CategorySet
        /\ \A c \in CategorySet :
             Get(changelog.val, c) = BulletsOf(SplitLines(body), c, 1)

\* Positions of the lines that are exactly the marker.
Markers(lines) == {i \in 1..Len(lines) : lines[i] = "### Ticket"}
FirstMarker(lines) == CHOOSE i \in Markers(lines) : \A k \in Markers(lines) : i <= k

\* What the claim fixes: the line after the first marker, "" without marker.
\* (A marker on the last line is left open here.)
TicketAsSpecified(result, lines) ==
    IF Markers(lines) = {} THEN result = Ok("")
    ELSE FirstMarker(lines) < Len(lines) => result = Ok(lines[FirstMarker(lines) + 1])

(* C6: extract_jira_ticket_no, in both source files, returns the line after  *)
(* the first line that is exactly "### Ticket", untrimmed, and "" when no    *)
(* line is that marker.                                                      *)
C6_TicketIsLineAfterExactMarker ==
    (body # NULL /\ ticket # PENDING /\ ticket_gh # PENDING) =>
        /\ TicketAsSpecified(ticket, SplitLines(body))
        /\ TicketAsSpecified(ticket_gh, SplitLines(body))

(* C7: neither extractor raises, whatever the body: absent, empty, without   *)
(* headings, or ending in the "### Ticket" marker.                           *)
C7_ExtractorsNeverRaise ==
    /\ changelog # PENDING => changelog.ok
    /\ ticket # PENDING => ticket.ok

-----------------------------------------------------------------------------
(* The release body, as the specification words it *)

RECURSIVE RenderBullets(_, _)
RenderBullets(bullets, i) ==
    IF i > Len(bullets) THEN ""
    ELSE "- " \o bullets[i] \o "\n" \o RenderBullets(bullets, i + 1)

\* The non-empty categories of one change, in canonical order.
RECURSIVE RenderCategories(_, _)
RenderCategories(notes, i) ==
    IF i > Len(CanonicalOrder) THEN ""
    ELSE (IF HasKey(notes, CanonicalOrder[i]) /\ Get(notes, CanonicalOrder[i]) # <<>>
          THEN "### " \o CanonicalOrder[i] \o "\n"
               \o RenderBullets(Get(notes, CanonicalOrder[i]), 1)
          ELSE "")
         \o RenderCategories(notes, i + 1)

RECURSIVE Render(_, _)
Render(changes, i) ==
    IF i > Len(changes) THEN ""
    ELSE "## " \o changes[i].ticket_no \o " - " \o changes[i].title \o "\n"
         \o RenderCategories(changes[i].release_notes, 1)
         \o Render(changes, i + 1)

Composed == pc = "exit" /\ patches # <<>>

(* C8: the composed body is one section per extracted change, in the order   *)
(* the pull requests were received, each `## {ticket} - {title}` followed by *)
(* its non-empty categories in the order Added, Changed, Deprecated,         *)
(* Removed, Fixed, Security, each `### {category}` with its `- {bullet}`     *)
(* lines in order.                                                           *)
C8_BodyInReceivedAndCanonicalOrder ==
    Composed =>
        /\ release_body = Render(merged_prs, 1)
        /\ Identities(merged_prs) = MergedAfter(seen, since.t, 1)

\* Two changes, the later merge received first, one of them with Fixed
\* before Added in its text.
C8_Witness ==
    /\ Composed
    /\ Len(merged_prs) = 2
    /\ merged_prs[1].merged_at.t > merged_prs[2].merged_at.t
    /\ Get(merged_prs[1].release_notes, "Added") # <<>>
    /\ Get(merged_prs[1].release_notes, "Fixed") # <<>>
    /\ release_body = "##  - Add feature\n### Added\n- feature one\n### Fixed\n- f\n"
                      \o "## ABC-1 - Fix bug\n### Fixed\n- bug one\n"

(* C9: every error is terminal: the run ends with exit status 0 only if      *)
(* every remote call it made succeeded.                                      *)
C9_ExitZeroOnlyIfAllCallsSucceeded ==
    (pc = "exit" /\ exit_code = 0) => AllCallsSucceeded

(* C10: at most one PATCH is sent, only after the new release was found and  *)
(* the pagination has ended, as the last remote call; its payload has        *)
(* `body` exactly when the composed body is non-empty, never `name`, and     *)
(* always draft and prerelease; with no qualifying pull request it is        *)
(* exactly draft and prerelease.                                             *)
C10_SinglePatchAfterPagination ==
    /\ Len(patches) <= 1
    /\ Cardinality({i \in 1..Len(calls) : calls[i].op = "patch"}) = Len(patches)
    /\ patches # <<>> =>
         /\ new_release # NONE
         /\ received # <<>> /\ EmptyCollection(received[Len(received)])
         /\ seen = AllItems(received, 1)
         /\ calls[Len(calls)].op = "patch"
         /\ HasKey(patches[1], "body") <=> release_body # ""
         /\ HasKey(patches[1], "body") => Get(patches[1], "body") = release_body
         /\ ~HasKey(patches[1], "name")
         /\ HasKey(patches[1], "draft") /\ HasKey(patches[1], "prerelease")
         /\ merged_prs = <<>> => Keys(patches[1]) = {"draft", "prerelease"}

\* Pull requests were received, none qualified, and the PATCH went out
\* without a body.
C10_Witness ==
    /\ pc = "exit" /\ Len(patches) = 1
    /\ seen # <<>> /\ merged_prs = <<>>
    /\ patches[1] = <<[k |-> "draft", v |-> "false"], [k |-> "prerelease", v |-> "false"]>>

=============================================================================
